---- MODULE Spec2Model ----
(***************************************************************************)
(* RAG pipeline of ainstein-ai: the orchestrator RAGPipeline               *)
(* (app/pipeline.py), the embedding store RAGEmbedder (app/embedder.py),   *)
(* the retriever RAGRetriever (app/retriever.py) and the service           *)
(* endpoints of app/main.py.                                               *)
(*                                                                         *)
(* The vector store (chromadb) and the index library (llama_index) are     *)
(* external: they are modelled by the contract the pipeline relies on, a   *)
(* persisted collection with a fixed name under persist_directory that is  *)
(* written by upsert-by-id, one chunk at a time, and that every index      *)
(* handle opened on that directory reads.                                  *)
(*                                                                         *)
(* A build_index call and a query call are broken into steps at every      *)
(* access to a field of the shared RAGPipeline object or to the store;     *)
(* purely local statements (logging, timing, building local lists) are     *)
(* merged into the step that follows them.                                 *)
(***************************************************************************)
EXTENDS Naturals, Sequences, FiniteSets, TLC

\* ---------------------------------------------------------------- bounds
MaxBuilds == 2      \* build_index calls in one behaviour
MaxQueries == 1     \* query calls in one behaviour
MaxFiles == 2       \* distinct files the source directories can hold
MaxText == 2        \* characters in the query string of a request
MaxRequestTopK == 1 \* largest top_k a request carries
MaxTopK == 2        \* largest top_k of a RAGRetriever taken by itself
MaxDocs == 2        \* documents given to one preprocess_documents call
MaxDirs == 2        \* source directories of a DocumentLoader taken by itself
MaxLoadFiles == 2   \* files under them
MaxEmbCalls == 2    \* calls made on a RAGEmbedder taken by itself
MaxPad == 2         \* whitespace around a content, and how far its length
                    \* is from the preview's

\* ------------------------------------------------------ program constants
TOP_K_RETRIEVAL == 5
DEFAULT_SEARCH_TOP_K == 5
SIMILARITY_CUTOFF == 70     \* 0.7, in hundredths
PREVIEW_LENGTH == 200

Builds == 1..MaxBuilds
Queries == 1..MaxQueries
Files == 1..MaxFiles
ChunkIds == 0..(MaxFiles - 1)

\* Query strings: whitespace and other characters.
Chars == {" ", "a"}
Texts == UNION {[1..n -> Chars] : n \in 0..MaxText}

\* main.py 114: QueryRequest.top_k, an integer or None (0 here).
RequestTopKs == 0..MaxRequestTopK

\* main.py 216: top_k of the search endpoint, 5 when the request has none.
SearchTopKs == (1..MaxRequestTopK) \cup {DEFAULT_SEARCH_TOP_K}

\* What the Loader can return: the files are distinct, in any order.
Corpora ==
  {s \in UNION {[1..n -> Files] : n \in 0..MaxFiles} :
     \A i, j \in DOMAIN s : i # j => s[i] # s[j]}

\* Optional[VectorStoreIndex] / Optional[RAGRetriever]: None.
NoIndex == [call |-> 0, kind |-> "none"]
NoRetriever == [call |-> 0, index |-> NoIndex, top_k |-> 0, complete |-> FALSE]

EmptyCollection == [c \in ChunkIds |-> 0]

VARIABLES
  index,        \* RAGPipeline.index
  retriever,    \* RAGPipeline.retriever
  store,        \* persist_directory on disk: dir exists, collection exists,
                \* the collection's entries by external id, and whether the
                \* last build that wrote it stopped partway
  builds,       \* the build_index calls: position and locals, and what the
                \* call has done so far: the collection's entries (snap) and
                \* the call that had published the served retriever (old)
                \* when it began to write, collaborators called (calls), the
                \* error its reuse path caught (caught), whether its open
                \* returned a handle (opened), fields it assigned (wrote)
  queries,      \* the query calls: position and locals
  svc,          \* the service process of main.py
  acks,         \* responses returned by the rebuild-index endpoint
  tasklog,      \* what rebuild_task logged for each background rebuild
  config,       \* RAGPipeline.source_dirs, .persist_directory, .top_k
  ret,          \* one RAGRetriever taken by itself: its collection, its
                \* top_k, and the call made on it
  chk,          \* one DocumentPreprocessor.preprocess_documents call
  pre,          \* one _preprocess_single_document call on a real string
  ldr,          \* one DocumentLoader.load_documents call
  emb           \* one RAGEmbedder taken by itself and its collection

vars ==
  <<index, retriever, store, builds, queries, svc, acks, tasklog, config,
    ret, chk, pre, ldr, emb>>

\* What the steps of the orchestrator and of the service never assign.
rest == <<config, ret, chk, pre, ldr, emb>>

NoAck == [message |-> "none", force_rebuild |-> FALSE, status |-> "none"]

IdleBuild ==
  [pc |-> "idle", force |-> FALSE, origin |-> "none", sawDir |-> FALSE,
   calls |-> {}, chunks |-> <<>>, pos |-> 0, snap |-> EmptyCollection,
   old |-> 0,
   newRetr |-> NoRetriever, caught |-> "none", err |-> "none", via |-> "none",
   opened |-> FALSE, wrote |-> {}]

\* get_stats has not returned anything.
NoStats ==
  [source_directories |-> <<>>, persist_directory |-> "none",
   top_k_retrieval |-> 0, index_exists |-> FALSE, retriever_ready |-> FALSE,
   vector_store_size |-> FALSE]

\* A call of query or of get_stats, and the request of the service that made
\* it, if one did: the endpoint, the query string, the request's top_k (0:
\* not given), and the response's status code, detail and number of results.
IdleQuery ==
  [pc |-> "idle", retrieve_only |-> FALSE, used |-> NoRetriever,
   calls |-> <<>>, observed |-> EmptyCollection, err |-> "none",
   called |-> FALSE, stats |-> NoStats, endpoint |-> "none", text |-> <<>>,
   top_k |-> 0, status |-> 0, detail |-> "none", results |-> 0,
   pipeline_ready |-> FALSE]

\* pipeline.py 22-24 with no environment variable set.
DefaultConfig ==
  [source_dirs |-> <<"docs", "src">>, persist_directory |-> "./vectorstore",
   top_k |-> TOP_K_RETRIEVAL]

IdleRet ==
  [pc |-> "idle", coll |-> {}, top_k |-> 0, op |-> "none", nodes |-> <<>>,
   results |-> <<>>, evidence |-> <<>>, synthesized |-> FALSE,
   response |-> "none", sources |-> <<>>, err |-> "none"]
IdlePre ==
  [pc |-> "idle", raw |-> <<>>, content |-> <<>>, content_preview |-> <<>>]

NoLoadStats == [py |-> 0, md |-> 0, skipped |-> 0, failed |-> 0]

IdleLdr ==
  [pc |-> "idle", exists |-> <<>>, files |-> <<>>, documents |-> <<>>,
   stats |-> NoLoadStats]
\* No call of the embedder.
NoCall ==
  [op |-> "none", ok |-> FALSE, chunks |-> <<>>, embedded |-> 0,
   docs |-> EmptyCollection]

IdleEmb ==
  [pc |-> "idle", sim |-> [f \in Files |-> 0], n |-> 0, last |-> NoCall,
   prev |-> NoCall]

IdleChk ==
  [pc |-> "idle", documents |-> <<>>, out |-> <<>>, failed |-> <<>>,
   error |-> "none"]

\* The store a process can find at start: nothing, an empty directory, or the
\* directory a previous run of the program left after a complete build.
InitialStores ==
  {[dir |-> FALSE, coll |-> FALSE, docs |-> EmptyCollection, partial |-> FALSE],
   [dir |-> TRUE, coll |-> FALSE, docs |-> EmptyCollection, partial |-> FALSE]}
  \cup
  {[dir |-> TRUE, coll |-> TRUE,
    docs |-> [c \in ChunkIds |-> IF c + 1 <= Len(s) THEN s[c + 1] ELSE 0],
    partial |-> FALSE] : s \in Corpora \ {<<>>}}

Init ==
  /\ index = NoIndex
  /\ retriever = NoRetriever
  /\ store \in InitialStores
  /\ builds = [b \in Builds |-> IdleBuild]
  /\ queries = [q \in Queries |-> IdleQuery]
  /\ svc = "created"
  /\ acks = [b \in Builds |-> NoAck]
  /\ tasklog = [b \in Builds |-> "none"]
  /\ config = DefaultConfig
  /\ ret = IdleRet
  /\ chk = IdleChk
  /\ pre = IdlePre
  /\ ldr = IdleLdr
  /\ emb = IdleEmb

\* ------------------------------------------------- callers of build_index
\* main.py 81-87 (lifespan re-raises: the service does not start) and
\* main.py 200-205 (rebuild_task catches and logs).
SvcAfterRaise_uncaught(b) == "crashed"

SvcAfterRaise_serves_anyway(b) == "running"

SvcAfterRaise(b) ==
  IF builds[b].origin = "startup" THEN "crashed" ELSE svc

SvcAfterReturn(b) ==
  IF builds[b].origin = "startup" THEN "running" ELSE svc

LogAfterRaise(b) ==
  IF builds[b].origin = "background"
  THEN [tasklog EXCEPT ![b] = "failed"] ELSE tasklog

LogAfterReturn(b) ==
  IF builds[b].origin = "background"
  THEN [tasklog EXCEPT ![b] = "completed"] ELSE tasklog

\* build_index is left: its locals are gone.
Ended(rec, pc) ==
  [rec EXCEPT !.pc = pc, !.chunks = <<>>, !.pos = 0, !.snap = EmptyCollection,
              !.old = 0, !.newRetr = NoRetriever]

\* An exception leaves build_index: the call ends with err, its caller reacts.
Raise(b, rec, e) ==
  /\ builds' = [builds EXCEPT ![b] = [Ended(rec, "failed") EXCEPT !.err = e]]
  /\ svc' = SvcAfterRaise(b)
  /\ tasklog' = LogAfterRaise(b)

\* ------------------------------------------------------------ build_index
\* pipeline.py 47: the reuse path is tried.
ReusePathTaken_ignore_force(force, exists) == exists

ReusePathTaken(force, exists) == ~force /\ exists

\* pipeline.py 42-47: entry of build_index and the os.path.exists test.
Enter(b, force, origin) ==
  builds' = [builds EXCEPT ![b] =
    [IdleBuild EXCEPT !.force = force, !.origin = origin,
       !.sawDir = store.dir,
       !.pc = IF ReusePathTaken(force, store.dir) THEN "open" ELSE "load"]]

NextIdle(b) ==
  /\ builds[b].pc = "idle"
  /\ IF b = 1 THEN TRUE ELSE builds[b - 1].pc # "idle"

\* A direct call of RAGPipeline.build_index (run_pipeline.py 37, or any thread).
build_index(b, force) ==
  /\ NextIdle(b)
  /\ Enter(b, force, "direct")
  /\ UNCHANGED <<index, retriever, store, queries, svc, acks, tasklog, rest>>

\* embedder.py 94-110: what load_existing_index can do on the store as it is.
load_existing_index_outcomes ==
  IF ~store.dir THEN {"StoreNotFoundError"}
  ELSE IF ~store.coll THEN {"CollectionNotFoundError"}
  ELSE {"ok", "StoreOpenError"}

\* pipeline.py 58-62: the reuse path's except clause logs and falls through.
reuse_except_reraise(b, rec, e) == Raise(b, rec, e)

reuse_except(b, rec, e) ==
  /\ builds' = [builds EXCEPT ![b] =
       [rec EXCEPT !.pc = "load", !.caught = e, !.newRetr = NoRetriever]]
  /\ UNCHANGED <<svc, tasklog>>

\* pipeline.py 49: self.index = self.embedder.load_existing_index()
load_existing_index(b) ==
  /\ builds[b].pc = "open"
  /\ \E out \in load_existing_index_outcomes :
       LET rec == [builds[b] EXCEPT !.calls = @ \cup {"open"}] IN
       IF out = "ok"
       THEN /\ index' = [call |-> b, kind |-> "opened"]
            /\ builds' = [builds EXCEPT ![b] =
                 [rec EXCEPT !.pc = "reuse_ctor", !.opened = TRUE,
                             !.wrote = @ \cup {"index"}]]
            /\ UNCHANGED <<svc, tasklog>>
       ELSE /\ index' = index
            /\ reuse_except(b, rec, out)
  /\ UNCHANGED <<retriever, store, queries, acks, rest>>

\* retriever.py 14-22, called at pipeline.py 50 and 79: the arguments
\* self.index and self.top_k are read and the object is created with its
\* VectorIndexRetriever; the query engine is not there yet.
RAGRetriever_init_publish_early(b) ==
  /\ builds[b].pc \in {"reuse_ctor", "ctor"}
  /\ LET r == [call |-> b, index |-> index, top_k |-> config.top_k,
               complete |-> FALSE] IN
       /\ builds' = [builds EXCEPT ![b] =
            [@ EXCEPT !.newRetr = r,
               !.pc = IF @ = "reuse_ctor" THEN "reuse_finish" ELSE "finish"]]
       /\ retriever' = r
  /\ UNCHANGED <<index, store, queries, svc, acks, tasklog, rest>>

RAGRetriever_init(b) ==
  /\ builds[b].pc \in {"reuse_ctor", "ctor"}
  /\ builds' = [builds EXCEPT ![b] =
       [@ EXCEPT !.newRetr = [call |-> b, index |-> index,
                              top_k |-> config.top_k, complete |-> FALSE],
          !.pc = IF @ = "reuse_ctor" THEN "reuse_finish" ELSE "finish"]]
  /\ UNCHANGED <<index, retriever, store, queries, svc, acks, tasklog, rest>>

\* pipeline.py 70 and 76-79 when they fail: what build_index does to
\* self.retriever on its way out with an exception.
RetrieverAfterFailure_cleared == NoRetriever

RetrieverAfterFailure == retriever

\* retriever.py 25-30, then pipeline.py 50-57 / 79-86: the query engine is
\* constructed (it can raise); on success the finished object is assigned to
\* self.retriever and build_index returns.
assign_retriever(b) ==
  /\ builds[b].pc \in {"reuse_finish", "finish"}
  /\ \E ok \in BOOLEAN :
       IF ok
       THEN /\ retriever' = [builds[b].newRetr EXCEPT !.complete = TRUE]
            /\ builds' = [builds EXCEPT ![b] =
                 [Ended(@, "done") EXCEPT
                    !.wrote = @ \cup {"retriever"},
                    !.via = IF builds[b].pc = "reuse_finish"
                            THEN "reuse" ELSE "full"]]
            /\ svc' = SvcAfterReturn(b)
            /\ tasklog' = LogAfterReturn(b)
       ELSE IF builds[b].pc = "reuse_finish"
            THEN /\ reuse_except(b, builds[b], "RetrieverError")
                 /\ retriever' = retriever
            ELSE /\ Raise(b, builds[b], "RetrieverError")
                 /\ retriever' = RetrieverAfterFailure
  /\ UNCHANGED <<index, store, queries, acks, rest>>

\* preprocessor.py 26-49: one chunk per document, chunk_id = its position.
preprocess_documents(docs) ==
  [i \in 1..Len(docs) |-> [chunk_id |-> i - 1, content |-> docs[i]]]

\* pipeline.py 68-73: Loader, the empty-corpus test, Chunker.
load_documents(b) ==
  /\ builds[b].pc = "load"
  /\ \E docs \in Corpora :
       IF docs = <<>>
       THEN /\ Raise(b, [builds[b] EXCEPT !.calls = @ \cup {"load"}],
                     "EmptyCorpusError")
            /\ retriever' = RetrieverAfterFailure
       ELSE /\ builds' = [builds EXCEPT ![b] =
                 [@ EXCEPT !.calls = @ \cup {"load", "chunk"},
                    !.chunks = preprocess_documents(docs),
                    !.pc = "create"]]
            /\ UNCHANGED <<retriever, svc, tasklog>>
  /\ UNCHANGED <<index, store, queries, acks, rest>>

\* embedder.py 41-55: PersistentClient creates the directory, then the
\* collection is fetched, or created when absent.
get_or_create_collection(b) ==
  /\ builds[b].pc = "create"
  /\ store' = [store EXCEPT !.dir = TRUE, !.coll = TRUE]
  /\ builds' = [builds EXCEPT ![b] =
       [@ EXCEPT !.calls = @ \cup {"build"}, !.pos = 0, !.snap = store.docs,
          !.old = retriever.call, !.pc = "insert"]]
  /\ UNCHANGED <<index, retriever, queries, svc, acks, tasklog, rest>>

\* embedder.py 64 and 76-79, writing every chunk as a new entry while the
\* collection has room, whatever its chunk_id.
Upsert_adds(docs, c) ==
  IF \E i \in ChunkIds : docs[i] = 0
  THEN [docs EXCEPT ![CHOOSE i \in ChunkIds : docs[i] = 0] = c.content]
  ELSE [docs EXCEPT ![c.chunk_id] = c.content]

\* embedder.py 64 and 76-79: a chunk is written under its chunk_id, over the
\* entry that has this identifier if there is one.
Upsert(docs, c) == [docs EXCEPT ![c.chunk_id] = c.content]

\* embedder.py 59-79: the next chunk is embedded and written under its
\* chunk_id, or the embedding provider fails and the build is abandoned with
\* what was written so far left in the collection.
upsert_chunk(b) ==
  /\ builds[b].pc = "insert"
  /\ builds[b].pos < Len(builds[b].chunks)
  /\ \E ok \in BOOLEAN :
       LET c == builds[b].chunks[builds[b].pos + 1] IN
       IF ok
       THEN /\ store' = [store EXCEPT !.docs = Upsert(@, c)]
            /\ builds' = [builds EXCEPT ![b].pos = @ + 1]
            /\ UNCHANGED <<retriever, svc, tasklog>>
       ELSE /\ store' = [store EXCEPT !.partial = @ \/ builds[b].pos > 0]
            /\ Raise(b, builds[b], "EmbeddingError")
            /\ retriever' = RetrieverAfterFailure
  /\ UNCHANGED <<index, queries, acks, rest>>

\* embedder.py 81-89 and pipeline.py 76: every chunk is written; the handle
\* is returned and assigned to self.index.
create_vector_store_return(b) ==
  /\ builds[b].pc = "insert"
  /\ builds[b].pos = Len(builds[b].chunks)
  /\ index' = [call |-> b, kind |-> "built"]
  /\ store' = [store EXCEPT !.partial = FALSE]
  /\ builds' = [builds EXCEPT ![b] =
       [@ EXCEPT !.pc = "ctor", !.chunks = <<>>, !.pos = 0,
                 !.snap = EmptyCollection, !.old = 0,
                 !.wrote = @ \cup {"index"}]]
  /\ UNCHANGED <<retriever, queries, svc, acks, tasklog, rest>>

BuildStep(b) ==
  \/ load_existing_index(b)
  \/ RAGRetriever_init(b)
  \/ assign_retriever(b)
  \/ load_documents(b)
  \/ get_or_create_collection(b)
  \/ upsert_chunk(b)
  \/ create_vector_store_return(b)

\* ------------------------------------------------------------------ query
\* pipeline.py 99: if not self.retriever
NotInitialized_tests_index == index = NoIndex

NotInitialized == retriever = NoRetriever

NextIdleQuery(q) ==
  /\ queries[q].pc = "idle"
  /\ IF q = 1 THEN TRUE ELSE queries[q - 1].pc # "idle"

\* main.py 190-192, 231-233 and 148-150: except Exception of an endpoint;
\* the detail of the 500 is str(e).
ErrorResponse_swallow(rec) == [rec EXCEPT !.status = 200]

ErrorResponse(rec) == [rec EXCEPT !.status = 500, !.detail = rec.err]

\* main.py 170-188 (sources: the outcome's sources or results), 224-229
\* (results[:top_k]) and 146-147: the response of an endpoint whose pipeline
\* call returned n results.
SuccessResponse(rec, n) ==
  [rec EXCEPT !.status = 200,
              !.results = IF rec.endpoint = "search" /\ rec.top_k < n
                          THEN rec.top_k ELSE n]

\* What the caller of a finished pipeline call does with it: a direct caller
\* keeps the outcome, an endpoint of main.py turns it into a response.
Respond(rec, n) ==
  IF rec.endpoint = "none" THEN rec
  ELSE IF rec.err # "none" THEN ErrorResponse(rec)
  ELSE SuccessResponse(rec, n)

\* pipeline.py 88-104: entry of query and the readiness test.
QueryEnter(q, req) ==
  queries' = [queries EXCEPT ![q] =
    IF NotInitialized
    THEN Respond([req EXCEPT !.called = TRUE, !.pc = "failed",
                    !.err = "NotInitializedError"], 0)
    ELSE [req EXCEPT !.called = TRUE, !.pc = "dispatch"]]

query(q, retrieve_only) ==
  /\ NextIdleQuery(q)
  /\ QueryEnter(q, [IdleQuery EXCEPT !.retrieve_only = retrieve_only])
  /\ UNCHANGED <<index, retriever, store, builds, svc, acks, tasklog, rest>>

\* What a search through an index handle reads: every handle is bound to the
\* one collection "manim_docs" under persist_directory (embedder.py 19, 41-55,
\* 100-110).
IndexContents(h) == store.docs

Min(a, b) == IF a <= b THEN a ELSE b

\* retriever.py 19-22 and 48: the search returns the similarity_top_k nearest
\* entries of the collection, all of them when there are fewer.
Found(r) ==
  Min(r.top_k, Cardinality({c \in ChunkIds : IndexContents(r.index)[c] # 0}))

\* pipeline.py 106-126: retrying the call once when it raised.
dispatch_retry(q) ==
  /\ queries[q].pc = "dispatch"
  /\ \E ok \in BOOLEAN, again \in BOOLEAN, kept \in 0..MaxFiles :
       LET op == IF queries[q].retrieve_only THEN "retrieve" ELSE "generate"
           rec == [queries[q] EXCEPT !.used = retriever,
                     !.calls = IF ok THEN Append(@, op)
                               ELSE Append(Append(@, op), op)]
           out == IF ok \/ again
                  THEN [rec EXCEPT !.pc = "done",
                          !.observed = IndexContents(retriever.index)]
                  ELSE [rec EXCEPT !.pc = "failed", !.err = "QueryFailed"]
       IN /\ IF out.err # "none" THEN kept = 0
             ELSE IF queries[q].retrieve_only THEN kept = Found(retriever)
             ELSE kept <= Found(retriever)
          /\ queries' = [queries EXCEPT ![q] = Respond(out, kept)]
  /\ UNCHANGED <<index, retriever, store, builds, svc, acks, tasklog, rest>>

\* pipeline.py 106-126: self.retriever is read again and retrieve_documents
\* (retriever.py 46-91) or generate_response (retriever.py 107-141) is called
\* on it, once; a failure of the search or of the generation is re-raised as
\* it is. kept: the results of retrieve_documents (all that the search found)
\* or the sources of generate_response (those the similarity cutoff left).
dispatch(q) ==
  /\ queries[q].pc = "dispatch"
  /\ \E ok \in BOOLEAN, kept \in 0..MaxFiles :
       LET op == IF queries[q].retrieve_only THEN "retrieve" ELSE "generate"
           rec == [queries[q] EXCEPT !.used = retriever,
                                     !.calls = Append(@, op)]
           out == IF ok
                  THEN [rec EXCEPT !.pc = "done",
                          !.observed = IndexContents(retriever.index)]
                  ELSE [rec EXCEPT !.pc = "failed",
                          !.err = IF queries[q].retrieve_only
                                  THEN "RetrievalFailure"
                                  ELSE "GenerationFailure"]
       IN /\ IF ~ok THEN kept = 0
             ELSE IF queries[q].retrieve_only THEN kept = Found(retriever)
             ELSE kept <= Found(retriever)
          /\ queries' = [queries EXCEPT ![q] = Respond(out, kept)]
  /\ UNCHANGED <<index, retriever, store, builds, svc, acks, tasklog, rest>>

\* pipeline.py 128-134: get_stats that drops the index handle it reports.
get_stats_resets(q) ==
  /\ NextIdleQuery(q)
  /\ queries' = [queries EXCEPT ![q] =
       [IdleQuery EXCEPT !.pc = "stats",
          !.stats = [NoStats EXCEPT
                       !.source_directories = config.source_dirs,
                       !.persist_directory = config.persist_directory,
                       !.top_k_retrieval = config.top_k,
                       !.index_exists = index # NoIndex]]]
  /\ index' = NoIndex
  /\ UNCHANGED <<retriever, store, builds, svc, acks, tasklog, rest>>

\* pipeline.py 128-134: get_stats reads the configuration and self.index.
get_stats(q) ==
  /\ NextIdleQuery(q)
  /\ queries' = [queries EXCEPT ![q] =
       [IdleQuery EXCEPT !.pc = "stats",
          !.stats = [NoStats EXCEPT
                       !.source_directories = config.source_dirs,
                       !.persist_directory = config.persist_directory,
                       !.top_k_retrieval = config.top_k,
                       !.index_exists = index # NoIndex]]]
  /\ UNCHANGED <<index, retriever, store, builds, svc, acks, tasklog, rest>>

\* pipeline.py 135-145: self.retriever is read; when persist_directory
\* exists its files are listed and their sizes summed, and a failure to read
\* them leaves get_stats as the OSError it is.
get_stats_return(q) ==
  /\ queries[q].pc = "stats"
  /\ \E readable \in BOOLEAN :
       LET rec == [queries[q] EXCEPT
                     !.stats.retriever_ready = retriever # NoRetriever]
           out == IF ~store.dir THEN [rec EXCEPT !.pc = "done"]
                  ELSE IF readable
                  THEN [rec EXCEPT !.pc = "done",
                                   !.stats.vector_store_size = TRUE]
                  ELSE [rec EXCEPT !.pc = "failed", !.err = "OSError"]
       IN queries' = [queries EXCEPT ![q] = Respond(out, 0)]
  /\ UNCHANGED <<index, retriever, store, builds, svc, acks, tasklog, rest>>

\* The call in slot q is a get_stats call (pipeline.py 128-145), not a query.
IsStatsCall(q) == queries[q].stats # NoStats

\* ------------------------------------------------- RAGPipeline by itself
Next ==
  \/ \E b \in Builds, force \in BOOLEAN : build_index(b, force)
  \/ \E b \in Builds : BuildStep(b)
  \/ \E q \in Queries, ro \in BOOLEAN : query(q, ro)
  \/ \E q \in Queries : dispatch(q)
  \/ \E q \in Queries : get_stats(q)
  \/ \E q \in Queries : get_stats_return(q)

Spec == Init /\ [][Next]_vars

\* ------------------------------------------------------------ the service
\* main.py 75-89: lifespan runs build_index(force_rebuild=True) before the
\* application accepts requests.
lifespan ==
  /\ svc = "created"
  /\ NextIdle(1)
  /\ svc' = "starting"
  /\ Enter(1, TRUE, "startup")
  /\ UNCHANGED <<index, retriever, store, queries, acks, tasklog, rest>>

\* main.py 209-213: the acknowledgement of the rebuild-index endpoint.
RebuildAck(force) ==
  [message |-> "Index rebuild started", force_rebuild |-> force,
   status |-> "processing"]

\* main.py 194-213: the endpoint adds rebuild_task to the background tasks and
\* returns the acknowledgement.
rebuild_index(b, force) ==
  /\ svc = "running"
  /\ NextIdle(b)
  /\ builds' = [builds EXCEPT ![b] =
       [IdleBuild EXCEPT !.pc = "queued", !.force = force,
                         !.origin = "background"]]
  /\ acks' = [acks EXCEPT ![b] = RebuildAck(force)]
  /\ UNCHANGED <<index, retriever, store, queries, svc, tasklog, rest>>

\* main.py 200-202: the background task starts, after the response.
rebuild_task(b) ==
  /\ builds[b].pc = "queued"
  /\ Enter(b, builds[b].force, "background")
  /\ UNCHANGED <<index, retriever, store, queries, svc, acks, tasklog, rest>>

\* str.strip(): leading and trailing whitespace removed.
RECURSIVE lstrip(_)
lstrip(t) == IF t # <<>> /\ Head(t) = " " THEN lstrip(Tail(t)) ELSE t

RECURSIVE rstrip(_)
rstrip(t) ==
  IF t # <<>> /\ t[Len(t)] = " " THEN rstrip(SubSeq(t, 1, Len(t) - 1)) ELSE t

strip(t) == rstrip(lstrip(t))

\* main.py 159 and 218: not request.query.strip()
IsBlank_nostrip(text) == text = <<>>

IsBlank(text) == strip(text) = <<>>

\* main.py 160 and 219: the HTTPException raised before the try statement.
Rejected(req) ==
  [req EXCEPT !.pc = "rejected", !.status = 400,
              !.detail = IF req.endpoint = "search"
                         THEN "Query parameter 'q' cannot be empty"
                         ELSE "Query cannot be empty"]

\* main.py 152-167: the submit-query endpoint up to its call of
\* rag_pipeline.query, to which it passes the query and retrieve_only.
query_documents(q, text, retrieve_only, top_k) ==
  /\ svc = "running"
  /\ NextIdleQuery(q)
  /\ LET req == [IdleQuery EXCEPT !.endpoint = "query", !.text = text,
                   !.retrieve_only = retrieve_only, !.top_k = top_k] IN
       IF IsBlank(text)
       THEN queries' = [queries EXCEPT ![q] = Rejected(req)]
       ELSE QueryEnter(q, req)
  /\ UNCHANGED <<index, retriever, store, builds, svc, acks, tasklog, rest>>

\* main.py 215-222: the search endpoint up to its call of rag_pipeline.query
\* with retrieve_only=True.
search_documents(q, text, top_k) ==
  /\ svc = "running"
  /\ NextIdleQuery(q)
  /\ LET req == [IdleQuery EXCEPT !.endpoint = "search", !.text = text,
                   !.retrieve_only = TRUE, !.top_k = top_k] IN
       IF IsBlank(text)
       THEN queries' = [queries EXCEPT ![q] = Rejected(req)]
       ELSE QueryEnter(q, req)
  /\ UNCHANGED <<index, retriever, store, builds, svc, acks, tasklog, rest>>

\* main.py 142-146: the stats endpoint calls rag_pipeline.get_stats, whose
\* first reads (pipeline.py 128-134) are taken here.
get_stats_route(q) ==
  /\ svc = "running"
  /\ NextIdleQuery(q)
  /\ queries' = [queries EXCEPT ![q] =
       [IdleQuery EXCEPT !.endpoint = "stats", !.pc = "stats",
          !.stats = [NoStats EXCEPT
                       !.source_directories = config.source_dirs,
                       !.persist_directory = config.persist_directory,
                       !.top_k_retrieval = config.top_k,
                       !.index_exists = index # NoIndex]]]
  /\ UNCHANGED <<index, retriever, store, builds, svc, acks, tasklog, rest>>

\* main.py 133-140: the health endpoint reads rag_pipeline.retriever and
\* answers at once; it calls nothing of the pipeline.
health_check(q) ==
  /\ svc = "running"
  /\ NextIdleQuery(q)
  /\ queries' = [queries EXCEPT ![q] =
       [IdleQuery EXCEPT !.endpoint = "health", !.pc = "done",
                         !.status = 200,
                         !.pipeline_ready = retriever # NoRetriever]]
  /\ UNCHANGED <<index, retriever, store, builds, svc, acks, tasklog, rest>>

SvcNext ==
  \/ lifespan
  \/ \E b \in Builds, force \in BOOLEAN : rebuild_index(b, force)
  \/ \E b \in Builds : rebuild_task(b)
  \/ \E b \in Builds : BuildStep(b)
  \/ \E q \in Queries, text \in Texts, ro \in BOOLEAN, k \in RequestTopKs :
       query_documents(q, text, ro, k)
  \/ \E q \in Queries, text \in Texts, k \in SearchTopKs :
       search_documents(q, text, k)
  \/ \E q \in Queries : get_stats_route(q)
  \/ \E q \in Queries : health_check(q)
  \/ \E q \in Queries : dispatch(q)
  \/ \E q \in Queries : get_stats_return(q)

SvcSpec == Init /\ [][SvcNext]_vars

\* ------------------------------------------------- RAGRetriever by itself
\* The variables of the pipeline and of the service while one of its
\* components is exercised alone.
PipelineAtRest ==
  /\ index = NoIndex
  /\ retriever = NoRetriever
  /\ store = [dir |-> FALSE, coll |-> FALSE, docs |-> EmptyCollection,
              partial |-> FALSE]
  /\ builds = [b \in Builds |-> IdleBuild]
  /\ queries = [q \in Queries |-> IdleQuery]
  /\ svc = "created"
  /\ acks = [b \in Builds |-> NoAck]
  /\ tasklog = [b \in Builds |-> "none"]
  /\ config = DefaultConfig

\* The similarity of a chunk to the query, in hundredths: below, at and above
\* the cutoff.
ScoreLevels ==
  {SIMILARITY_CUTOFF - 1, SIMILARITY_CUTOFF, SIMILARITY_CUTOFF + 1}

\* The collections an index can be bound to, each entry with its similarity
\* to the query that will be asked.
RetCollections ==
  {S \in SUBSET [id : ChunkIds, score : ScoreLevels] :
     \A a, b \in S : a.id = b.id => a = b}

\* retriever.py 14-30: a RAGRetriever on an index, with its top_k.
RetInit ==
  /\ PipelineAtRest
  /\ chk = IdleChk
  /\ pre = IdlePre
  /\ ldr = IdleLdr
  /\ emb = IdleEmb
  /\ \E S \in RetCollections, k \in 1..MaxTopK :
       ret = [IdleRet EXCEPT !.pc = "ready", !.coll = S, !.top_k = k]

\* retriever.py 19-22 and 48: VectorIndexRetriever.retrieve returns the
\* similarity_top_k entries nearest to the query, all of them when there are
\* fewer, ordered by descending similarity; the order of equal scores is the
\* store's.
VectorSearch(S, k) ==
  LET n == Min(k, Cardinality(S)) IN
  {s \in [1..n -> S] :
     /\ \A i, j \in 1..n : i < j => s[i] # s[j] /\ s[i].score >= s[j].score
     /\ \A c \in S : (\A i \in 1..n : s[i] # c) =>
                       \A i \in 1..n : s[i].score >= c.score}

\* retriever.py 53-63, with ranks that start at 0.
node_data_rank_from_0(nodes) ==
  [i \in 1..Len(nodes) |->
     [id |-> nodes[i].id, score |-> nodes[i].score, rank |-> i - 1]]

\* retriever.py 53-63: for i, node in enumerate(retrieved_nodes), with
\* 'rank': i + 1 (i is i - 1 there).
node_data(nodes) ==
  [i \in 1..Len(nodes) |->
     [id |-> nodes[i].id, score |-> nodes[i].score, rank |-> (i - 1) + 1]]

\* retriever.py 46-91
retrieve_documents ==
  /\ ret.pc = "ready"
  /\ \E ok \in BOOLEAN, nodes \in VectorSearch(ret.coll, ret.top_k) :
       ret' = IF ok
              THEN [ret EXCEPT !.pc = "done", !.op = "retrieve",
                               !.nodes = nodes, !.results = node_data(nodes)]
              ELSE [ret EXCEPT !.pc = "failed", !.op = "retrieve",
                               !.err = "RetrievalFailure"]
  /\ UNCHANGED <<index, retriever, store, builds, queries, svc, acks, tasklog,
                 config, chk, pre, ldr, emb>>

\* retriever.py 27 with no node dropped.
SimilarityPostprocessor_off(nodes) == nodes

\* retriever.py 27: SimilarityPostprocessor(similarity_cutoff=0.7) keeps, in
\* order, the nodes whose score is not below the cutoff.
SimilarityPostprocessor(nodes) ==
  SelectSeq(nodes, LAMBDA n : n.score >= SIMILARITY_CUTOFF)

\* retriever.py 109-129 when an empty evidence list ends the call before the
\* synthesizer.
GenerateOutcome_needs_evidence(nodes) ==
  LET kept == SimilarityPostprocessor(nodes) IN
  [pc |-> IF kept = <<>> THEN "failed" ELSE "done",
   nodes |-> nodes, evidence |-> kept, synthesized |-> kept # <<>>,
   response |-> IF kept = <<>> THEN "none" ELSE "answer",
   sources |-> [i \in 1..Len(kept) |->
                  [id |-> kept[i].id, score |-> kept[i].score]],
   err |-> IF kept = <<>> THEN "NoEvidence" ELSE "none"]

\* retriever.py 109-129: query_engine.query passes what the search returned
\* through the postprocessor and hands what is left to the synthesizer; the
\* outcome carries str(response) and one source for each of
\* response.source_nodes.
GenerateOutcome(nodes) ==
  LET kept == SimilarityPostprocessor(nodes) IN
  [pc |-> "done", nodes |-> nodes, evidence |-> kept, synthesized |-> TRUE,
   response |-> "answer",
   sources |-> [i \in 1..Len(kept) |->
                  [id |-> kept[i].id, score |-> kept[i].score]],
   err |-> "none"]

\* retriever.py 107-141
generate_response ==
  /\ ret.pc = "ready"
  /\ \E ok \in BOOLEAN, nodes \in VectorSearch(ret.coll, ret.top_k) :
       LET out == GenerateOutcome(nodes) IN
       ret' = IF ok
              THEN [ret EXCEPT !.pc = out.pc, !.op = "generate",
                      !.nodes = out.nodes, !.evidence = out.evidence,
                      !.synthesized = out.synthesized,
                      !.response = out.response, !.sources = out.sources,
                      !.err = out.err]
              ELSE [ret EXCEPT !.pc = "failed", !.op = "generate",
                               !.err = "GenerationFailure"]
  /\ UNCHANGED <<index, retriever, store, builds, queries, svc, acks, tasklog,
                 config, chk, pre, ldr, emb>>

RetNext ==
  \/ retrieve_documents
  \/ generate_response

RetSpec == RetInit /\ [][RetNext]_vars

\* ----------------------------------------- DocumentPreprocessor by itself
\* The documents preprocess_documents can be given. content: a string, None,
\* or no 'content' key. metadata: the dictionary the loader builds
\* (loader.py 78-84), one without 'filename', one without 'size', None, or no
\* 'metadata' key.
ContentShapes == {"str", "none", "absent"}
MetadataShapes == {"full", "no_filename", "no_size", "none", "absent"}
InputDocs == [content : ContentShapes, metadata : MetadataShapes]
Inputs == UNION {[1..n -> InputDocs] : n \in 0..MaxDocs}

ChkInit ==
  /\ PipelineAtRest
  /\ ret = IdleRet
  /\ pre = IdlePre
  /\ ldr = IdleLdr
  /\ emb = IdleEmb
  /\ \E documents \in Inputs :
       chk = [IdleChk EXCEPT !.pc = "called", !.documents = documents]

\* preprocessor.py 55 and 59: doc['content'].strip() raises without a string
\* under 'content', {**doc['metadata'], ...} raises without a dictionary
\* under 'metadata'.
SingleRaises(doc) ==
  doc.content # "str" \/ doc.metadata \in {"none", "absent"}

\* preprocessor.py 51-69 with one chunk_id for every document.
preprocess_single_document_same_id(doc, doc_id, input) ==
  [content |-> "stripped", input |-> input,
   metadata |-> [of |-> doc.metadata, chunk_id |-> 0,
                 chunk_index |-> 0, total_chunks |-> 1]]

\* preprocessor.py 51-69: the chunk of a document; input is the position of
\* the document in the call's argument.
preprocess_single_document(doc, doc_id, input) ==
  [content |-> "stripped", input |-> input,
   metadata |-> [of |-> doc.metadata, chunk_id |-> doc_id,
                 chunk_index |-> 0, total_chunks |-> 1]]

\* preprocessor.py 31-35: the debug message reads doc['metadata']['filename']
\* and doc['metadata']['size'].
ProcessedLogRaises(doc) == doc.metadata \in {"no_filename", "no_size"}

\* preprocessor.py 38-41: the error message reads
\* doc['metadata'].get('filename', 'unknown').
FailedLogRaises(doc) == doc.metadata \in {"none", "absent"}

\* preprocessor.py 26-49: the loop from the document at position i (the
\* code's i is i - 1) and what the call ends with. st.out is processed_docs,
\* st.failed the positions of the documents whose failure was logged.
RECURSIVE preprocess_from(_, _, _)
preprocess_from(documents, i, st) ==
  IF i > Len(documents) THEN [st EXCEPT !.pc = "returned"]
  ELSE
    LET doc == documents[i]
        appended ==
          IF SingleRaises(doc) THEN st
          ELSE [st EXCEPT !.out =
                  Append(@, preprocess_single_document(doc, i - 1, i))]
        raised == SingleRaises(doc) \/ ProcessedLogRaises(doc)
    IN IF ~raised THEN preprocess_from(documents, i + 1, appended)
       ELSE IF FailedLogRaises(doc)
       THEN [appended EXCEPT !.pc = "aborted",
               !.error = IF doc.metadata = "absent" THEN "KeyError"
                         ELSE "AttributeError"]
       ELSE preprocess_from(documents, i + 1,
              [appended EXCEPT !.failed = Append(@, i)])

\* str(n) of a non-negative integer: its decimal digits.
RECURSIVE str(_)
str(n) == IF n < 10 THEN <<n>> ELSE Append(str(n \div 10), n % 10)

\* embedder.py 64: doc_id=str(doc['metadata']['chunk_id']), the identifier
\* the Document is given to the index under.
doc_id(chunk) == str(chunk.metadata.chunk_id)

\* preprocessor.py 10-49
preprocess_call ==
  /\ chk.pc = "called"
  /\ chk' = preprocess_from(chk.documents, 1, chk)
  /\ UNCHANGED <<index, retriever, store, builds, queries, svc, acks, tasklog,
                 config, ret, pre, ldr, emb>>

ChkNext == preprocess_call

ChkSpec == ChkInit /\ [][ChkNext]_vars

\* ------------------------------------- _preprocess_single_document alone
Spaces(n) == [i \in 1..n |-> " "]

\* A string of n characters that neither starts nor ends with whitespace.
Core(n) == [i \in 1..n |-> IF i = 2 /\ n > 2 THEN " " ELSE "a"]

\* Contents short, and as long as the preview or nearly, with whitespace
\* around them.
CoreLengths ==
  (0..MaxPad) \cup ((PREVIEW_LENGTH - MaxPad)..(PREVIEW_LENGTH + MaxPad))

Contents ==
  {Spaces(l) \o Core(n) \o Spaces(t) :
     l \in 0..MaxPad, n \in CoreLengths, t \in 0..MaxPad}

PreInit ==
  /\ PipelineAtRest
  /\ ret = IdleRet
  /\ chk = IdleChk
  /\ ldr = IdleLdr
  /\ emb = IdleEmb
  /\ \E c \in Contents : pre = [IdlePre EXCEPT !.pc = "called", !.raw = c]

\* content[:200]
Prefix(content) == SubSeq(content, 1, Min(PREVIEW_LENGTH, Len(content)))

\* preprocessor.py 63 read as content[:200] + ("..." if ... else content).
content_preview_other_precedence(content) ==
  Prefix(content) \o (IF Len(content) > PREVIEW_LENGTH
                      THEN <<".", ".", ".">> ELSE content)

\* preprocessor.py 63: content[:200] + "..." if len(content) > 200 else
\* content
content_preview(content) ==
  IF Len(content) > PREVIEW_LENGTH
  THEN Prefix(content) \o <<".", ".", ".">>
  ELSE content

\* preprocessor.py 51-69 on a document whose content is the string pre.raw.
preprocess_single_call ==
  /\ pre.pc = "called"
  /\ LET content == strip(pre.raw) IN
       pre' = [pre EXCEPT !.pc = "done", !.content = content,
                          !.content_preview = content_preview(content)]
  /\ UNCHANGED <<index, retriever, store, builds, queries, svc, acks, tasklog,
                 config, ret, chk, ldr, emb>>

PreNext == preprocess_single_call

PreSpec == PreInit /\ [][PreNext]_vars

\* --------------------------------------------------- RAGEmbedder by itself
\* embedder.py 17-24: an embedder on a persist_directory as a process can
\* find it; sim is the similarity of each file's content to the query that
\* will be asked of the indexes.
EmbInit ==
  /\ index = NoIndex
  /\ retriever = NoRetriever
  /\ store \in InitialStores
  /\ builds = [b \in Builds |-> IdleBuild]
  /\ queries = [q \in Queries |-> IdleQuery]
  /\ svc = "created"
  /\ acks = [b \in Builds |-> NoAck]
  /\ tasklog = [b \in Builds |-> "none"]
  /\ config = DefaultConfig
  /\ ret = IdleRet
  /\ chk = IdleChk
  /\ pre = IdlePre
  /\ ldr = IdleLdr
  /\ \E sim \in [Files -> ScoreLevels] :
       emb = [IdleEmb EXCEPT !.pc = "ready", !.sim = sim]

\* embedder.py 59-79: the first n chunks written, in order.
RECURSIVE UpsertAll(_, _, _)
UpsertAll(docs, chunks, n) ==
  IF n = 0 THEN docs
  ELSE Upsert(UpsertAll(docs, chunks, n - 1), chunks[n])

\* embedder.py 26-89: create_vector_store on the chunks of a corpus, which
\* its caller has found not to be empty (pipeline.py 69-73). Every chunk is
\* embedded and written (n = Len(chunks)) and the handle is returned, or the
\* embedding provider fails after n chunks.
create_vector_store_call ==
  /\ emb.pc = "ready"
  /\ emb.n < MaxEmbCalls
  /\ \E docs \in Corpora \ {<<>>}, n \in 0..MaxFiles :
       LET chunks == preprocess_documents(docs)
           written == UpsertAll(store.docs, chunks, n) IN
       /\ n <= Len(chunks)
       /\ store' = [dir |-> TRUE, coll |-> TRUE, docs |-> written,
                    partial |-> IF n = Len(chunks) THEN FALSE
                                ELSE store.partial \/ n > 0]
       /\ emb' = [emb EXCEPT !.n = @ + 1, !.prev = emb.last,
                    !.last = [op |-> "build", ok |-> n = Len(chunks),
                              chunks |-> chunks, embedded |-> n,
                              docs |-> written]]
  /\ UNCHANGED <<index, retriever, builds, queries, svc, acks, tasklog,
                 config, ret, chk, pre, ldr>>

\* embedder.py 91-114: load_existing_index; nothing is embedded and the
\* handle reads the collection as it is.
load_existing_index_call ==
  /\ emb.pc = "ready"
  /\ emb.n < MaxEmbCalls
  /\ \E out \in load_existing_index_outcomes :
       emb' = [emb EXCEPT !.n = @ + 1, !.prev = emb.last,
                 !.last = [op |-> "open", ok |-> out = "ok",
                           chunks |-> <<>>, embedded |-> 0,
                           docs |-> store.docs]]
  /\ UNCHANGED <<index, retriever, store, builds, queries, svc, acks, tasklog,
                 config, ret, chk, pre, ldr>>

EmbNext ==
  \/ create_vector_store_call
  \/ load_existing_index_call

EmbSpec == EmbInit /\ [][EmbNext]_vars

\* The rankings a retriever with the default top_k can return for the query
\* from a handle that reads the collection docs.
Visible(docs) ==
  VectorSearch({[id |-> c, content |-> docs[c], score |-> emb.sim[docs[c]]] :
                  c \in {i \in ChunkIds : docs[i] # 0}},
               TOP_K_RETRIEVAL)

\* The collection that holds the given chunks and nothing else.
DocsOf(chunks) == UpsertAll(EmptyCollection, chunks, Len(chunks))

\* ------------------------------------------------ DocumentLoader by itself
\* loader.py 14
supported_extensions == {".py", ".md"}

\* The files os.walk can meet, in the order it meets them: the source
\* directory a file is under, whether its name starts with a dot, its
\* suffix, and whether it can be opened and read as UTF-8.
LoadFiles ==
  [dir : 1..MaxDirs, hidden : BOOLEAN,
   suffix : supported_extensions \cup {".txt"}, readable : BOOLEAN]

LdrInit ==
  /\ PipelineAtRest
  /\ ret = IdleRet
  /\ chk = IdleChk
  /\ pre = IdlePre
  /\ emb = IdleEmb
  /\ \E exists \in [1..MaxDirs -> BOOLEAN],
        files \in UNION {[1..n -> LoadFiles] : n \in 0..MaxLoadFiles} :
       ldr = [IdleLdr EXCEPT !.pc = "called", !.exists = exists,
                             !.files = files]

\* loader.py 61-105 with every file that is not loaded counted as failed.
Classify_skip_is_failed(file) ==
  IF file.hidden \/ file.suffix \notin supported_extensions THEN "failed"
  ELSE IF ~file.readable THEN "failed"
  ELSE IF file.suffix = ".py" THEN "py"
  ELSE "md"

\* loader.py 61-105: what _load_from_directory does with one file. A hidden
\* file is skipped, then a file whose suffix is not supported; a file that
\* cannot be read is failed; the others are loaded and counted by suffix.
Classify(file) ==
  IF file.hidden THEN "skipped"
  ELSE IF file.suffix \notin supported_extensions THEN "skipped"
  ELSE IF ~file.readable THEN "failed"
  ELSE IF file.suffix = ".py" THEN "py"
  ELSE "md"

\* loader.py 57-107: the files of one directory from position i on; acc holds
\* documents (positions of the loaded files) and stats.
RECURSIVE load_from_directory(_, _, _, _)
load_from_directory(files, directory, i, acc) ==
  IF i > Len(files) THEN acc
  ELSE IF files[i].dir # directory
  THEN load_from_directory(files, directory, i + 1, acc)
  ELSE LET kind == Classify(files[i])
           docs == IF kind \in {"py", "md"}
                   THEN Append(acc.documents, i) ELSE acc.documents
       IN load_from_directory(files, directory, i + 1,
            [documents |-> docs,
             stats |-> [acc.stats EXCEPT ![kind] = @ + 1]])

\* loader.py 29-39: the source directories in order; one that does not exist
\* is passed over, the documents and stats of the others are added up.
RECURSIVE load_from(_, _, _, _)
load_from(exists, files, d, acc) ==
  IF d > Len(exists) THEN acc
  ELSE IF ~exists[d] THEN load_from(exists, files, d + 1, acc)
  ELSE LET in_dir == load_from_directory(files, d, 1,
                       [documents |-> <<>>, stats |-> NoLoadStats])
       IN load_from(exists, files, d + 1,
            [documents |-> acc.documents \o in_dir.documents,
             stats |-> [k \in DOMAIN acc.stats |->
                          acc.stats[k] + in_dir.stats[k]]])

\* loader.py 16-50
load_documents_call ==
  /\ ldr.pc = "called"
  /\ LET out == load_from(ldr.exists, ldr.files, 1,
                  [documents |-> <<>>, stats |-> NoLoadStats]) IN
       ldr' = [ldr EXCEPT !.pc = "returned", !.documents = out.documents,
                          !.stats = out.stats]
  /\ UNCHANGED <<index, retriever, store, builds, queries, svc, acks, tasklog,
                 config, ret, chk, pre, emb>>

LdrNext == load_documents_call

LdrSpec == LdrInit /\ [][LdrNext]_vars

\* ----------------------------------------------------------------- claims
Called(b) == builds[b].pc \notin {"idle", "queued"}
FullPath == {"load", "chunk", "build"}

\* build_index returns at the assignment of self.retriever: a call has
\* completed successfully exactly when it is "done".
NoBuildCompleted == \A b \in Builds : builds[b].pc # "done"

\* C1: while no build_index call has completed successfully, every query call,
\* retrieve_only or not, has failed with NotInitializedError (the ValueError of
\* pipeline.py 100) and has made no retrieval and no generation call.
C1_QueryBeforeBuildFails ==
  NoBuildCompleted =>
    \A q \in Queries :
      ~IsStatsCall(q) =>
        /\ queries[q].pc \in {"idle", "failed"}
        /\ queries[q].pc = "failed" =>
             /\ queries[q].err = "NotInitializedError"
             /\ queries[q].calls = <<>>
             /\ queries[q].used = NoRetriever

\* A query was refused although a build had already assigned self.index and
\* then failed before it had a retriever.
C1_Witness ==
  /\ NoBuildCompleted
  /\ index # NoIndex
  /\ \E b \in Builds : builds[b].pc = "failed"
  /\ \E q \in Queries :
       queries[q].pc = "failed" /\ queries[q].err = "NotInitializedError"

\* C2: self.retriever only ever holds a completely constructed retriever
\* (bound to an index handle and to top_k, query engine included), and the
\* retriever a query dispatches to is such an object, published by a
\* build_index call at its last step; a retriever under construction is never
\* visible to a query.
C2_OnlyCompleteRetrievers ==
  /\ retriever # NoRetriever =>
       /\ retriever.complete
       /\ retriever.index # NoIndex
       /\ retriever.top_k = TOP_K_RETRIEVAL
       /\ builds[retriever.call].pc = "done"
  /\ \A q \in Queries :
       queries[q].calls # <<>> =>
         /\ queries[q].used # NoRetriever
         /\ queries[q].used.complete
         /\ queries[q].used.index # NoIndex
         /\ builds[queries[q].used.call].pc = "done"

\* A query was served by the old retriever while another build_index call
\* held a new retriever whose query engine was not constructed yet.
C2_Witness ==
  \E q \in Queries, b \in Builds :
    /\ queries[q].pc = "done"
    /\ builds[b].pc \in {"reuse_finish", "finish"}
    /\ ~builds[b].newRetr.complete
    /\ queries[q].used.call # b

\* C3: a build_index call that fails with EmptyCorpusError (the ValueError of
\* pipeline.py 70) has assigned neither self.index nor self.retriever: the
\* state after the call is the state before it.
C3_EmptyCorpusLeavesState ==
  \A b \in Builds :
    (builds[b].pc = "failed" /\ builds[b].err = "EmptyCorpusError") =>
      builds[b].wrote = {}

\* C4: a step in which a build_index call fails leaves self.retriever as it
\* was, a failed call has never assigned self.retriever, and self.retriever,
\* once set, is never None again. (A retriever's binding to its index handle
\* is part of its value, so an unchanged retriever is bound as before.)
C4_FailureKeepsRetriever ==
  [][/\ retriever # NoRetriever => retriever' # NoRetriever
     /\ \A b \in Builds :
          (builds[b].pc # "failed" /\ builds'[b].pc = "failed") =>
            /\ retriever' = retriever
            /\ "retriever" \notin builds'[b].wrote]_vars

\* A rebuild failed at the embedding provider while an earlier call's
\* retriever was being served.
C4_Witness ==
  \E b \in Builds :
    /\ builds[b].pc = "failed"
    /\ builds[b].err = "EmbeddingError"
    /\ retriever # NoRetriever
    /\ retriever.call # b

\* C5: a query that dispatches while a rebuild is writing the collection, to
\* the retriever that was already served when that rebuild began to write,
\* observes exactly the entries the collection held at that moment.
C5_QuerySeesOldContents ==
  [][\A q \in Queries :
       (queries[q].pc = "dispatch" /\ queries'[q].pc = "done") =>
         \A b \in Builds :
           (builds[b].pc = "insert" /\ builds[b].old # 0
              /\ retriever.call = builds[b].old) =>
             queries'[q].observed = builds[b].snap]_vars

\* C6: when every build_index call has succeeded, the two fields come from
\* the call that completed last, the one whose retriever is in self.retriever:
\* self.index is that call's handle and the retriever is bound to it.
C6_LastBuildWins ==
  (\A b \in Builds : builds[b].pc = "done") =>
    /\ index.call = retriever.call
    /\ retriever.index = index

\* C7 as stated: load_existing_index is called iff force_rebuild is false and
\* the directory exists; a call whose open returned a handle publishes a
\* retriever bound to that handle and calls neither Loader, Chunker nor build;
\* a call that does not try the reuse path and succeeds has run the full path.
C7_ReuseDecision ==
  \A b \in Builds :
    /\ (Called(b) /\ builds[b].pc # "open") =>
         (("open" \in builds[b].calls) <=>
            (~builds[b].force /\ builds[b].sawDir))
    /\ builds[b].opened => builds[b].calls \cap FullPath = {}
    /\ (builds[b].opened /\ retriever.call = b) =>
         retriever.index = [call |-> b, kind |-> "opened"]
    /\ (builds[b].pc = "done" /\ (builds[b].force \/ ~builds[b].sawDir)) =>
         /\ "open" \notin builds[b].calls
         /\ FullPath \subseteq builds[b].calls
         /\ builds[b].via = "full"

\* C7 amended: as above, but a call whose open returned a handle calls the
\* Loader only after the construction of its retriever has failed, and
\* otherwise returns on the reuse path without Loader, Chunker or build; the
\* retriever it publishes is complete and bound to the handle that was in
\* self.index when it was constructed, its own unless another call assigned
\* self.index in between.
C7_ReuseDecisionAmended ==
  \A b \in Builds :
    /\ (Called(b) /\ builds[b].pc # "open") =>
         (("open" \in builds[b].calls) <=>
            (~builds[b].force /\ builds[b].sawDir))
    /\ (builds[b].opened /\ builds[b].calls \cap FullPath # {}) =>
         builds[b].caught = "RetrieverError"
    /\ (builds[b].opened /\ builds[b].caught = "none") =>
         /\ builds[b].pc \in {"reuse_ctor", "reuse_finish", "done"}
         /\ builds[b].pc = "done" =>
              /\ builds[b].via = "reuse"
              /\ builds[b].calls = {"open"}
    /\ (builds[b].pc = "done" /\ builds[b].via = "reuse") =>
         /\ builds[b].opened
         /\ builds[b].calls = {"open"}
    /\ (builds[b].pc = "done" /\ retriever.call = b) =>
         /\ retriever.complete
         /\ \/ retriever.index.call = b
            \/ /\ retriever.index.call \in Builds \ {b}
               /\ "index" \in builds[retriever.index.call].wrote
    /\ (builds[b].pc = "done" /\ (builds[b].force \/ ~builds[b].sawDir)) =>
         /\ "open" \notin builds[b].calls
         /\ FullPath \subseteq builds[b].calls
         /\ builds[b].via = "full"

\* One call returned on the reuse path, and another one, whose open had also
\* returned a handle, went on to the Loader.
C7_Witness ==
  \E b, c \in Builds :
    /\ builds[b].pc = "done" /\ builds[b].via = "reuse"
    /\ builds[c].opened /\ "load" \in builds[c].calls

\* C8: no error of the reuse path leaves build_index. A call that fails has
\* failed on the full rebuild path with that path's own error; a call whose
\* reuse path caught an error goes on with the Loader, and when it succeeds it
\* serves an index it has built, as a force_rebuild=True call does.
C8_ReuseFailureFallsThrough ==
  \A b \in Builds :
    /\ builds[b].pc = "failed" =>
         /\ "load" \in builds[b].calls
         /\ \/ /\ builds[b].err = "EmptyCorpusError"
               /\ builds[b].calls \cap {"chunk", "build"} = {}
            \/ /\ builds[b].err \in {"EmbeddingError", "RetrieverError"}
               /\ FullPath \subseteq builds[b].calls
    /\ builds[b].caught # "none" =>
         /\ builds[b].pc \in {"load", "create", "insert", "ctor", "finish",
                              "done", "failed"}
         /\ builds[b].pc = "done" =>
              /\ builds[b].via = "full"
              /\ FullPath \subseteq builds[b].calls

\* A call whose open found no collection (or a broken store) has rebuilt and
\* succeeded, and another whose reuse-path retriever could not be constructed
\* ended with the full rebuild's EmptyCorpusError.
C8_Witness ==
  \E b, c \in Builds :
    /\ builds[b].caught \in {"CollectionNotFoundError", "StoreOpenError"}
    /\ builds[b].pc = "done"
    /\ builds[c].caught = "RetrieverError"
    /\ builds[c].pc = "failed"

\* C9: the collection behind the served retriever is never one that a failed
\* build left partially written.
C9_NoPartialIndexServed ==
  retriever # NoRetriever => ~store.partial

\* C10: every rebuild triggered through the endpoint has its acknowledgement,
\* the same whatever the rebuild does afterwards, from the moment the task is
\* queued; a failed background rebuild is logged by its task and leaves the
\* service running.
C10_RebuildInBackground ==
  \A b \in Builds :
    /\ builds[b].origin = "background" =>
         /\ acks[b] = RebuildAck(builds[b].force)
         /\ svc = "running"
         /\ builds[b].pc = "failed" => tasklog[b] = "failed"
         /\ builds[b].pc = "done" => tasklog[b] = "completed"
         /\ builds[b].pc \notin {"failed", "done"} => tasklog[b] = "none"
    /\ builds[b].origin # "background" => acks[b] = NoAck

\* A background rebuild has failed: it is acknowledged and logged, and the
\* service runs.
C10_Witness ==
  \E b \in Builds :
    /\ builds[b].origin = "background"
    /\ builds[b].pc = "failed"
    /\ acks[b] = RebuildAck(builds[b].force)
    /\ svc = "running"

\* ---------------------------------------------------------------- C11
\* C11: a submit-query or search request whose query text is empty or only
\* whitespace is answered with status 400 and rag_pipeline.query is not
\* called for it, whatever the pipeline is doing.
C11_BlankQueryRejected ==
  \A q \in Queries :
    (/\ queries[q].endpoint \in {"query", "search"}
     /\ strip(queries[q].text) = <<>>)
    => /\ queries[q].status = 400
       /\ ~queries[q].called
       /\ queries[q].calls = <<>>

\* A whitespace-only search request was rejected while a rebuild was writing
\* the collection.
C11_Witness ==
  \E q \in Queries, b \in Builds :
    /\ queries[q].endpoint = "search"
    /\ queries[q].text = <<" ", " ">>
    /\ queries[q].status = 400
    /\ builds[b].origin = "background"
    /\ builds[b].pc = "insert"

\* ---------------------------------------------------------------- C12
\* C12: an exception of the pipeline while an endpoint serves a submit-query,
\* search or stats request is answered with status 500 whose detail is the
\* exception's text; a response with status 200 comes from a pipeline call
\* that returned; the 400 of a blank query is not turned into a 500.
C12_PipelineErrorIs500 ==
  \A q \in Queries :
    queries[q].endpoint # "none" =>
      /\ queries[q].err # "none" =>
           queries[q].status = 500 /\ queries[q].detail = queries[q].err
      /\ queries[q].status = 500 => queries[q].err # "none"
      /\ queries[q].status = 200 =>
           queries[q].err = "none" /\ queries[q].pc = "done"
      /\ queries[q].pc = "rejected" =>
           queries[q].status = 400 /\ queries[q].err = "none"

\* A submit-query request whose generation failed was answered with 500.
C12_Witness ==
  \E q \in Queries :
    /\ queries[q].endpoint = "query"
    /\ queries[q].calls = <<"generate">>
    /\ queries[q].err = "GenerationFailure"
    /\ queries[q].status = 500
    /\ queries[q].detail = "GenerationFailure"

\* ---------------------------------------------------------------- C13
\* C13: when a submit-query request carries top_k, the number of documents
\* retrieved for it is bounded by that value and not by the pipeline's
\* default.
C13_RequestTopKGoverns ==
  \A q \in Queries :
    (/\ queries[q].endpoint = "query"
     /\ queries[q].top_k # 0
     /\ queries[q].status = 200)
    => queries[q].results <= queries[q].top_k

\* ---------------------------------------------------------------- C14
\* C14: a query call that passed the readiness test calls exactly one of
\* retrieve_documents and generate_response, the one retrieve_only selects,
\* exactly once, and when that call fails the query fails with the same
\* error: nothing is retried.
C14_OneCallNoRetry ==
  \A q \in Queries :
    LET op == IF queries[q].retrieve_only THEN "retrieve" ELSE "generate" IN
    /\ Len(queries[q].calls) <= 1
    /\ (queries[q].called /\ queries[q].pc = "done") =>
         queries[q].calls = <<op>> /\ queries[q].err = "none"
    /\ (queries[q].called /\ queries[q].pc = "failed"
          /\ queries[q].err # "NotInitializedError") =>
         /\ queries[q].calls = <<op>>
         /\ queries[q].err = IF queries[q].retrieve_only
                             THEN "RetrievalFailure" ELSE "GenerationFailure"

\* A query whose generation failed has made that one call and carries its
\* error.
C14_Witness ==
  \E q \in Queries :
    /\ queries[q].called
    /\ queries[q].pc = "failed"
    /\ queries[q].calls = <<"generate">>
    /\ queries[q].err = "GenerationFailure"

\* ---------------------------------------------------------------- C15
\* The fields of the RAGPipeline object are left as they are by every step of
\* a query call or of a get_stats call.
ReadOnlyCalls ==
  (\E q \in Queries : queries'[q] # queries[q])
    => UNCHANGED <<index, retriever, config>>

\* C15 as stated: query and get_stats leave source_dirs, persist_directory,
\* top_k, index and retriever unchanged, and get_stats succeeds in every
\* state.
C15_QueriesReadOnly ==
  /\ [][ReadOnlyCalls]_vars
  /\ [](\A q \in Queries : IsStatsCall(q) => queries[q].pc # "failed")

\* C15, amended: query and get_stats leave source_dirs, persist_directory,
\* top_k, index and retriever unchanged; get_stats does not depend on the
\* pipeline being initialised and fails only when persist_directory exists
\* and reading its files fails.
C15_QueriesReadOnlyAmended ==
  /\ [][ReadOnlyCalls]_vars
  /\ [](\A q \in Queries :
          (IsStatsCall(q) /\ queries[q].pc = "failed") =>
            queries[q].err = "OSError" /\ store.dir)

\* get_stats returned on a pipeline that was never built and has no
\* persist_directory.
C15_Witness ==
  \E q \in Queries :
    /\ IsStatsCall(q)
    /\ queries[q].pc = "done"
    /\ ~queries[q].stats.index_exists
    /\ ~queries[q].stats.retriever_ready
    /\ index = NoIndex
    /\ retriever = NoRetriever
    /\ ~store.dir

\* ---------------------------------------------------------------- C16
\* C16: retrieve_documents on a retriever with top_k K returns min(K, size of
\* the collection) results, ranked 1, 2, ... without gaps, with scores that
\* do not increase along the list; each result is an entry of the collection
\* with its score and no entry outside the list scores higher than one in
\* it: no result is dropped for a low score.
C16_RetrieveTopK ==
  (ret.op = "retrieve" /\ ret.pc = "done") =>
    LET r == ret.results
        n == Len(r) IN
    /\ n <= ret.top_k
    /\ n = Min(ret.top_k, Cardinality(ret.coll))
    /\ \A i \in 1..n : r[i].rank = i
    /\ \A i, j \in 1..n : i < j => r[i].score >= r[j].score /\ r[i].id # r[j].id
    /\ \A i \in 1..n : [id |-> r[i].id, score |-> r[i].score] \in ret.coll
    /\ \A c \in ret.coll :
         (\A i \in 1..n : r[i].id # c.id) =>
           \A i \in 1..n : r[i].score >= c.score

\* Two results, the second below the cutoff of the query engine.
C16_Witness ==
  /\ ret.op = "retrieve"
  /\ ret.pc = "done"
  /\ Len(ret.results) = 2
  /\ ret.results[1].score > ret.results[2].score
  /\ ret.results[2].score < SIMILARITY_CUTOFF
  /\ ret.results[2].rank = 2

\* ---------------------------------------------------------------- C17
\* C17: every source in the outcome of generate_response has a score of at
\* least the cutoff 0.7.
C17_SourcesAboveCutoff ==
  (ret.op = "generate" /\ ret.pc = "done") =>
    \A i \in 1..Len(ret.sources) : ret.sources[i].score >= SIMILARITY_CUTOFF

\* The search returned a chunk below the cutoff and one at the cutoff; only
\* the second is a source.
C17_Witness ==
  /\ ret.op = "generate"
  /\ ret.pc = "done"
  /\ Len(ret.nodes) = 2
  /\ ret.nodes[2].score < SIMILARITY_CUTOFF
  /\ Len(ret.sources) = 1
  /\ ret.sources[1].score = SIMILARITY_CUTOFF

\* ---------------------------------------------------------------- C18
\* C18: when the cutoff leaves none of the retrieved chunks,
\* generate_response neither fails for that reason nor returns early: the
\* synthesizer is given the empty evidence list and the outcome carries the
\* answer text and an empty list of sources.
C18_EmptyEvidenceStillAnswers ==
  ret.op = "generate" =>
    /\ ret.pc = "failed" => ret.err = "GenerationFailure"
    /\ (/\ ret.pc = "done"
        /\ \A i \in 1..Len(ret.nodes) : ret.nodes[i].score < SIMILARITY_CUTOFF)
       => /\ ret.synthesized
          /\ ret.evidence = <<>>
          /\ ret.sources = <<>>
          /\ ret.response = "answer"

\* Chunks were retrieved, all below the cutoff, and the answer came back with
\* no sources.
C18_Witness ==
  /\ ret.op = "generate"
  /\ ret.pc = "done"
  /\ Len(ret.nodes) = 2
  /\ \A i \in 1..Len(ret.nodes) : ret.nodes[i].score < SIMILARITY_CUTOFF
  /\ ret.synthesized
  /\ ret.sources = <<>>
  /\ ret.response = "answer"

\* ---------------------------------------------------------------- C19
InSeq(x, seq) == \E k \in 1..Len(seq) : seq[k] = x

\* C19: what preprocess_documents returns holds exactly the documents that
\* were not reported as failed, in the order of the input: its length is the
\* input's length minus the number of failures and a document reported as
\* failed has no chunk in it; every chunk has chunk_index 0 and total_chunks
\* 1.
C19_OutputIsTheUnfailed ==
  chk.pc = "returned" =>
    /\ Len(chk.out) = Len(chk.documents) - Len(chk.failed)
    /\ \A k \in 1..Len(chk.out) : ~InSeq(chk.out[k].input, chk.failed)
    /\ \A i \in 1..Len(chk.documents) :
         ~InSeq(i, chk.failed) => \E k \in 1..Len(chk.out) : chk.out[k].input = i
    /\ \A k, l \in 1..Len(chk.out) :
         k < l => chk.out[k].input < chk.out[l].input
    /\ \A k \in 1..Len(chk.out) :
         /\ chk.out[k].metadata.chunk_index = 0
         /\ chk.out[k].metadata.total_chunks = 1

\* ---------------------------------------------------------------- C20
WellFormed(doc) == doc.content = "str" /\ doc.metadata = "full"

\* C20: preprocess_documents returns normally whatever documents of its
\* input are malformed (content missing or not readable, metadata missing,
\* metadata lacking a field): the malformed ones are left out and the
\* well-formed ones are in what it returns.
C20_MalformedNeverAborts ==
  /\ chk.pc # "aborted"
  /\ chk.pc = "returned" =>
       \A i \in 1..Len(chk.documents) :
         WellFormed(chk.documents[i])
           <=> \E k \in 1..Len(chk.out) : chk.out[k].input = i

\* ---------------------------------------------------------------- C21
\* C21: every chunk preprocess_documents returns has as chunk_id the 0-based
\* position of its document in the input, so the chunk_ids of one call are
\* strictly increasing along the output, also when documents were dropped,
\* and the identifiers the chunks are given to the index under (doc_id, the
\* chunk_id as a string) are pairwise distinct.
C21_ChunkIdIsPosition ==
  chk.pc = "returned" =>
    /\ \A k \in 1..Len(chk.out) :
         chk.out[k].metadata.chunk_id = chk.out[k].input - 1
    /\ \A k, l \in 1..Len(chk.out) :
         k < l =>
           /\ chk.out[k].metadata.chunk_id < chk.out[l].metadata.chunk_id
           /\ doc_id(chk.out[k]) # doc_id(chk.out[l])

\* The first of two documents was dropped and the chunk of the second has
\* chunk_id 1.
C21_Witness ==
  /\ chk.pc = "returned"
  /\ Len(chk.documents) = 2
  /\ chk.failed = <<1>>
  /\ Len(chk.out) = 1
  /\ chk.out[1].input = 2
  /\ doc_id(chk.out[1]) = <<1>>

\* ---------------------------------------------------------------- C22
\* C22: the chunk's content is the document's content without its leading
\* and trailing whitespace, and content_preview is made from that trimmed
\* content: the content itself when it has at most 200 characters, otherwise
\* its first 200 characters followed by "..."; it never has more than 203
\* characters.
C22_TrimmedContentAndPreview ==
  pre.pc = "done" =>
    LET c == pre.content
        v == pre.content_preview IN
    /\ \E l, t \in 0..Len(pre.raw) : pre.raw = Spaces(l) \o c \o Spaces(t)
    /\ c # <<>> => c[1] # " " /\ c[Len(c)] # " "
    /\ Len(c) <= PREVIEW_LENGTH => v = c
    /\ Len(c) > PREVIEW_LENGTH =>
         /\ Len(v) = PREVIEW_LENGTH + 3
         /\ \A i \in 1..PREVIEW_LENGTH : v[i] = c[i]
         /\ \A i \in (PREVIEW_LENGTH + 1)..(PREVIEW_LENGTH + 3) : v[i] = "."
    /\ Len(v) <= PREVIEW_LENGTH + 3

\* A content longer than 200 characters only because of the whitespace
\* around it: the preview is the whole trimmed content.
C22_Witness ==
  /\ pre.pc = "done"
  /\ Len(pre.raw) > PREVIEW_LENGTH
  /\ Len(pre.content) = PREVIEW_LENGTH
  /\ pre.content_preview = pre.content

\* ---------------------------------------------------------------- C23
\* C23: when create_vector_store is called twice in a row with the same
\* chunks under the same chunk_ids and both calls succeed, what a query
\* retrieves from the index after the second call is what it retrieved after
\* the first: the same ranked chunks and as many of them.
C23_BuildIdempotent ==
  (/\ emb.last.op = "build" /\ emb.last.ok
   /\ emb.prev.op = "build" /\ emb.prev.ok
   /\ emb.last.chunks = emb.prev.chunks)
  => /\ emb.last.docs = emb.prev.docs
     /\ Visible(emb.last.docs) = Visible(emb.prev.docs)

\* The same chunk was built twice in a row.
C23_Witness ==
  /\ emb.last.op = "build" /\ emb.last.ok
  /\ emb.prev.op = "build" /\ emb.prev.ok
  /\ emb.last.chunks = emb.prev.chunks
  /\ Len(emb.last.chunks) = 1
  /\ emb.last.embedded = 1

\* ---------------------------------------------------------------- C24
\* C24: load_existing_index right after a successful create_vector_store
\* gives an index from which a query retrieves the same ranked chunks as from
\* the handle create_vector_store returned; the collection it reopens holds
\* exactly the chunks that create_vector_store indexed; it embeds nothing.
C24_OpenAfterBuild ==
  (/\ emb.last.op = "open" /\ emb.last.ok
   /\ emb.prev.op = "build" /\ emb.prev.ok)
  => /\ Visible(emb.last.docs) = Visible(emb.prev.docs)
     /\ emb.last.docs = DocsOf(emb.prev.chunks)
     /\ emb.last.embedded = 0

\* ---------------------------------------------------------------- C25
\* The files load_documents enumerates: those under a source directory that
\* exists.
Enumerated == {i \in 1..Len(ldr.files) : ldr.exists[ldr.files[i].dir]}

Loaded == {ldr.documents[k] : k \in 1..Len(ldr.documents)}

Supported(i) == ldr.files[i].suffix \in supported_extensions

LoadCounts ==
  /\ Len(ldr.documents) = Cardinality(Loaded)
  /\ Len(ldr.documents) = ldr.stats.py + ldr.stats.md
  /\ ldr.stats.py + ldr.stats.md + ldr.stats.skipped + ldr.stats.failed
       = Cardinality(Enumerated)
  /\ ldr.stats.py = Cardinality({i \in Loaded : ldr.files[i].suffix = ".py"})
  /\ ldr.stats.md = Cardinality({i \in Loaded : ldr.files[i].suffix = ".md"})

\* C25 as stated: load_documents returns, and of the files it enumerates
\* those with a supported suffix that can be read are the documents, counted
\* by suffix; those with another suffix are counted as skipped, those that
\* cannot be read as failed; so len(documents) = py + md and py + md +
\* skipped + failed is the number of files enumerated.
C25_LoaderClassifies ==
  ldr.pc = "returned" =>
    /\ Loaded = {i \in Enumerated : Supported(i) /\ ldr.files[i].readable}
    /\ ldr.stats.skipped = Cardinality({i \in Enumerated : ~Supported(i)})
    /\ ldr.stats.failed =
         Cardinality({i \in Enumerated :
                        Supported(i) /\ ~ldr.files[i].readable})
    /\ LoadCounts

\* C25, amended: a file whose name starts with a dot is counted as skipped
\* whatever its suffix and is never read; the rest of the statement is about
\* the other files.
C25_LoaderClassifiesAmended ==
  ldr.pc = "returned" =>
    /\ Loaded = {i \in Enumerated : /\ ~ldr.files[i].hidden
                                    /\ Supported(i)
                                    /\ ldr.files[i].readable}
    /\ ldr.stats.skipped =
         Cardinality({i \in Enumerated :
                        ldr.files[i].hidden \/ ~Supported(i)})
    /\ ldr.stats.failed =
         Cardinality({i \in Enumerated : /\ ~ldr.files[i].hidden
                                         /\ Supported(i)
                                         /\ ~ldr.files[i].readable})
    /\ LoadCounts

\* A hidden .py file was skipped and an unreadable .md file failed.
C25_Witness ==
  /\ ldr.pc = "returned"
  /\ \E i, j \in Enumerated :
       /\ ldr.files[i].hidden /\ ldr.files[i].suffix = ".py"
       /\ ldr.files[i].readable
       /\ ~ldr.files[j].hidden /\ ldr.files[j].suffix = ".md"
       /\ ~ldr.files[j].readable
  /\ ldr.documents = <<>>
  /\ ldr.stats = [py |-> 0, md |-> 0, skipped |-> 1, failed |-> 1]

\* ---------------------------------------------------------------- C26
\* C26: in every state, in the middle of a build_index call and after a
\* failed one too, self.index and self.retriever are both None, or both are
\* set and the retriever is bound to self.index; get_stats never returns
\* index_exists true with retriever_ready false.
C26_IndexRetrieverConsistent ==
  /\ \/ index = NoIndex /\ retriever = NoRetriever
     \/ /\ index # NoIndex
        /\ retriever # NoRetriever
        /\ retriever.index = index
  /\ \A q \in Queries :
       (IsStatsCall(q) /\ queries[q].pc = "done") =>
         ~(queries[q].stats.index_exists /\ ~queries[q].stats.retriever_ready)

\* ---------------------------------------------------------------- C27
\* C27: when a full rebuild that no other build_index call ran beside has
\* written its last chunk, the index it hands to the pipeline holds exactly
\* the chunks of the corpus it loaded: no entry of an earlier corpus is left
\* for retrieve_documents or generate_response to return.
C27_RebuildLeavesNoStaleChunk ==
  [][\A b \in Builds :
       (/\ builds[b].pc = "insert"
        /\ builds'[b].pc = "ctor"
        /\ \A o \in Builds \ {b} : builds[o].pc = "idle")
       => store'.docs = DocsOf(builds[b].chunks)]_vars

\* ---------------------------------------------------------------- C28
\* C28: the service answers a request only after its startup build_index has
\* returned, and a startup build that fails ends the service before any
\* request; so every request of an endpoint finds index and retriever set,
\* no call of query through an endpoint fails with the not-initialized
\* error, and every health response has pipeline_ready true, also while a
\* background rebuild runs or after one has failed.
C28_ServedOnlyWhenReady ==
  /\ svc = "crashed" =>
       /\ \E b \in Builds :
            builds[b].origin = "startup" /\ builds[b].pc = "failed"
       /\ \A q \in Queries : queries[q] = IdleQuery
  /\ \A q \in Queries :
       queries[q].endpoint # "none" =>
         /\ svc = "running"
         /\ \E b \in Builds :
              builds[b].origin = "startup" /\ builds[b].pc = "done"
         /\ index # NoIndex
         /\ retriever # NoRetriever
         /\ queries[q].err # "NotInitializedError"
         /\ queries[q].endpoint = "health" =>
              /\ queries[q].status = 200
              /\ queries[q].pipeline_ready

\* A health request is answered after a background rebuild has failed.
C28_Witness ==
  \E q \in Queries, b \in Builds :
    /\ queries[q].endpoint = "health"
    /\ queries[q].pipeline_ready
    /\ builds[b].origin = "background"
    /\ builds[b].pc = "failed"
    /\ tasklog[b] = "failed"

\* A startup build has failed: the service is down and has answered nothing.
C28_WitnessStartupFails ==
  /\ svc = "crashed"
  /\ \A q \in Queries : queries[q] = IdleQuery
====
